---- MODULE Spec2Model ----
(***************************************************************************)
(* Model of the user routes of oThinas/flow: the four Express handlers     *)
(* getAll, getById, getByQuery and post (with validatePost and             *)
(* schemaParser) running against the User table of the SQLite store.       *)
(*                                                                         *)
(* The repository holds two generations of the routes file.  The model     *)
(* follows the one that exports userRoutes, uses schemaParser and is wired *)
(* by server.ts (src/unnamed/part_000 lines 18-214).                       *)
(*                                                                         *)
(* Strings are sequences of one-character strings, so that trimming,       *)
(* lengths, the e-mail shape, the password regex and Number() are computed *)
(* rather than assumed.                                                    *)
(***************************************************************************)
EXTENDS Integers, Sequences, FiniteSets, TLC

(***************************************************************************)
(* Bounds of the model.                                                    *)
(***************************************************************************)
\* Number of requests that arrive during one run.
MaxRequests == 2

(***************************************************************************)
(* Program constants.                                                      *)
(***************************************************************************)
TakeLimit == 20
NameMin == 3
NameMax == 50
LoginMin == 4
LoginMax == 20
PasswordMin == 6

(***************************************************************************)
(* Characters and strings.                                                 *)
(***************************************************************************)
Lower == {"a","b","c","d","e","f","g","h","i","j","k","l","m",
          "n","o","p","q","r","s","t","u","v","w","x","y","z"}
Upper == {"A","B","C","D","E","F","G","H","I","J","K","L","M",
          "N","O","P","Q","R","S","T","U","V","W","X","Y","Z"}
Digit == {"0","1","2","3","4","5","6","7","8","9"}
\* The symbols the password regex allows: [@$!%*?&]
Special == {"@","$","!","%","*","?","&"}
WhiteSpace == {" "}

SetMin(S) == CHOOSE x \in S : \A y \in S : x <= y
SetMax(S) == CHOOSE x \in S : \A y \in S : x >= y

\* String.prototype.trim as zod's .trim() applies it.
Trim(s) ==
  LET keep == {i \in 1..Len(s) : s[i] \notin WhiteSpace}
  IN  IF keep = {} THEN <<>> ELSE SubSeq(s, SetMin(keep), SetMax(keep))

DigitValue(c) ==
  CASE c = "0" -> 0 [] c = "1" -> 1 [] c = "2" -> 2 [] c = "3" -> 3
    [] c = "4" -> 4 [] c = "5" -> 5 [] c = "6" -> 6 [] c = "7" -> 7
    [] c = "8" -> 8 [] c = "9" -> 9

RECURSIVE DecimalValue(_)
DecimalValue(s) ==
  IF s = <<>> THEN 0
  ELSE 10 * DecimalValue(SubSeq(s, 1, Len(s) - 1)) + DigitValue(s[Len(s)])

\* Number(id) of JavaScript on a string of digits, ".", white space and
\* other characters.  kind is "nan", "int" or "frac"; val is the value of
\* an "int".  Signs, exponents and radix prefixes need characters (+ - e E
\* x o b I) that the identifiers of this model do not contain.
ToNumber(s) ==
  LET t    == Trim(s)
      dots == {i \in 1..Len(t) : t[i] = "."}
      NaN  == [kind |-> "nan", val |-> 0]
  IN  IF t = <<>> THEN [kind |-> "int", val |-> 0]
      ELSE IF \E i \in 1..Len(t) : t[i] \notin Digit \cup {"."} THEN NaN
      ELSE IF dots = {} THEN [kind |-> "int", val |-> DecimalValue(t)]
      ELSE IF Cardinality(dots) > 1 \/ Len(t) = 1 THEN NaN
      ELSE LET d    == CHOOSE i \in dots : TRUE
               whole == SubSeq(t, 1, d - 1)
               frac  == SubSeq(t, d + 1, Len(t))
           IN  IF \E i \in 1..Len(frac) : frac[i] # "0"
               THEN [kind |-> "frac", val |-> DecimalValue(whole)]
               ELSE [kind |-> "int", val |-> DecimalValue(whole)]

(***************************************************************************)
(* JavaScript values of a request: undefined, a string or a number.        *)
(***************************************************************************)
Undef  == [t |-> "undef", s |-> <<>>, n |-> 0]
Str(x) == [t |-> "str", s |-> x, n |-> 0]
Num(k) == [t |-> "num", s |-> <<>>, n |-> k]

\* Truthiness, as the ! operator sees it.
Truthy(v) ==
  CASE v.t = "undef" -> FALSE
    [] v.t = "str"   -> v.s # <<>>
    [] v.t = "num"   -> v.n # 0

sUndefined == <<"u","n","d","e","f","i","n","e","d">>

\* String(v): String(undefined) is the text "undefined".
JSString(v) ==
  CASE v.t = "undef" -> sUndefined
    [] v.t = "str"   -> v.s

(***************************************************************************)
(* The schema of validatePost (zod), field by field.                       *)
(***************************************************************************)
MsgRequired     == "Required"
MsgNotString    == "Expected string, received number"
MsgNameMin      == "Nome deve ter no minimo 3 caracteres."
MsgNameMax      == "Nome deve ter no maximo 50 caracteres."
MsgLoginMin     == "Login deve ter no minimo 4 caracteres."
MsgLoginMax     == "Login deve ter no maximo 20 caracteres."
MsgEmail        == "Email invalido."
MsgPassword     == "Senha deve conter no minimo 6 caracteres, pelo menos uma letra maiuscula, uma letra minuscula, um numero e um caractere especial."

\* One or more atoms of characters other than white space, "@" and ".",
\* separated by single dots.
DotAtoms(t) ==
  /\ t # <<>>
  /\ t[1] # "." /\ t[Len(t)] # "."
  /\ \A i \in 1..Len(t) : t[i] \notin WhiteSpace \cup {"@"}
  /\ \A i \in 1..(Len(t) - 1) : ~(t[i] = "." /\ t[i + 1] = ".")

\* z.string().email(): local part, one "@", a dotted domain whose last
\* label has at least two characters.
IsEmail(t) ==
  LET ats == {i \in 1..Len(t) : t[i] = "@"}
  IN  /\ Cardinality(ats) = 1
      /\ LET at     == CHOOSE i \in ats : TRUE
             local  == SubSeq(t, 1, at - 1)
             domain == SubSeq(t, at + 1, Len(t))
             dots   == {i \in 1..Len(domain) : domain[i] = "."}
         IN  /\ DotAtoms(local)
             /\ DotAtoms(domain)
             /\ dots # {}
             /\ Len(domain) - SetMax(dots) >= 2

\* passwordRegex:
\* ^(?=.*[a-z])(?=.*[A-Z])(?=.*\d)(?=.*[@$!%*?&])[A-Za-z\d@$!%*?&]{6,}$
PasswordRegex(t) ==
  LET has(C) == \E i \in 1..Len(t) : t[i] \in C
  IN  /\ has(Lower) /\ has(Upper) /\ has(Digit) /\ has(Special)
      /\ \A i \in 1..Len(t) : t[i] \in Lower \cup Upper \cup Digit \cup Special
      /\ Len(t) >= PasswordMin

Issue(f, m) == <<[field |-> f, message |-> m]>>

\* The issues zod reports for one string field: the type first, then the
\* checks on the trimmed text in the order they are declared.
TypeIssue(f, v) ==
  IF v.t = "undef" THEN Issue(f, MsgRequired)
  ELSE IF v.t # "str" THEN Issue(f, MsgNotString)
  ELSE <<>>

NameIssues(v) ==
  IF v.t # "str" THEN TypeIssue("name", v)
  ELSE (IF Len(Trim(v.s)) < NameMin THEN Issue("name", MsgNameMin) ELSE <<>>)
       \o (IF Len(Trim(v.s)) > NameMax THEN Issue("name", MsgNameMax) ELSE <<>>)

LoginIssues(v) ==
  IF v.t # "str" THEN TypeIssue("login", v)
  ELSE (IF Len(Trim(v.s)) < LoginMin THEN Issue("login", MsgLoginMin) ELSE <<>>)
       \o (IF Len(Trim(v.s)) > LoginMax THEN Issue("login", MsgLoginMax) ELSE <<>>)

EmailIssues(v) ==
  IF v.t # "str" THEN TypeIssue("email", v)
  ELSE IF IsEmail(Trim(v.s)) THEN <<>> ELSE Issue("email", MsgEmail)

PasswordIssues(v) ==
  IF v.t # "str" THEN TypeIssue("password", v)
  ELSE IF PasswordRegex(Trim(v.s)) THEN <<>> ELSE Issue("password", MsgPassword)

\* A parse that stops at the first field with an issue.
SchemaIssues_FailFast(body) ==
  LET all == NameIssues(body.name) \o LoginIssues(body.login)
               \o EmailIssues(body.email) \o PasswordIssues(body.password)
  IN  IF all = <<>> THEN <<>> ELSE <<all[1]>>

\* userSchema.parse(request.body): the issues of all fields, in the order
\* the schema declares them.
SchemaIssues(body) ==
  NameIssues(body.name) \o LoginIssues(body.login)
    \o EmailIssues(body.email) \o PasswordIssues(body.password)

(***************************************************************************)
(* The User table.                                                         *)
(***************************************************************************)
NoUser == [id |-> 0, login |-> <<>>, email |-> <<>>, password |-> <<>>, name |-> <<>>]

\* The table without its two unique indexes.
UniqueViolation_NoIndex(S, login, email) == FALSE

\* CREATE UNIQUE INDEX "User_login_key" / "User_email_key".
UniqueViolation(S, login, email) ==
  \E u \in S : u.login = login \/ u.email = email

\* "id" INTEGER NOT NULL PRIMARY KEY.
PrimaryKeyViolation(S, id) == \E u \in S : u.id = id

\* An insert that replaces the row holding the identifier (INSERT OR
\* REPLACE) instead of failing on it.
StoreCreate_Replace(S, sq, data) ==
  LET newId == IF data.id.t = "num" THEN data.id.n ELSE sq + 1
      row   == [id |-> newId, login |-> data.login.s, email |-> data.email.s,
                password |-> data.password.s, name |-> data.name.s]
      kept  == {u \in S : u.id # newId}
  IN  IF UniqueViolation(kept, row.login, row.email)
        THEN [ok |-> FALSE, error |-> "unique_violation", users |-> S, seq |-> sq, user |-> NoUser]
      ELSE [ok |-> TRUE, error |-> "", users |-> kept \cup {row},
            seq |-> IF newId > sq THEN newId ELSE sq, user |-> row]

\* prisma.user.create({ data }) on table S whose AUTOINCREMENT sequence
\* stands at sq.  data holds the keys of the request body; an id in it is
\* written as given, otherwise the store assigns sq + 1.
StoreCreate(S, sq, data) ==
  LET newId == IF data.id.t = "num" THEN data.id.n ELSE sq + 1
      row   == [id |-> newId, login |-> data.login.s, email |-> data.email.s,
                password |-> data.password.s, name |-> data.name.s]
  IN  IF PrimaryKeyViolation(S, newId)
        THEN [ok |-> FALSE, error |-> "id_violation", users |-> S, seq |-> sq, user |-> NoUser]
      ELSE IF UniqueViolation(S, row.login, row.email)
        THEN [ok |-> FALSE, error |-> "unique_violation", users |-> S, seq |-> sq, user |-> NoUser]
      ELSE [ok |-> TRUE, error |-> "", users |-> S \cup {row},
            seq |-> IF newId > sq THEN newId ELSE sq, user |-> row]

\* findMany without its take.
FindMany_NoTake(S, take) == S

\* prisma.user.findMany({ take }): the first take rows; no orderBy is given,
\* and SQLite then walks the table in the order of its INTEGER PRIMARY KEY.
FindMany(S, take) ==
  {u \in S : Cardinality({v \in S : v.id < u.id}) < take}

\* The lookup comparing against the wrong identifier.
FindUnique_NextId(S, id) == {u \in S : u.id = id + 1}

\* prisma.user.findUnique({ where: { id } })
FindUnique(S, id) == {u \in S : u.id = id}

\* The pre-check with AND in place of OR.
UserExistsWhere_And(u, login, email) == u.login = login /\ u.email = email

\* where: { OR: [{ login }, { email }] } of validatePost.
UserExistsWhere(u, login, email) == u.login = login \/ u.email = email

\* The row findFirst returns among those that match, NoUser for null: no
\* orderBy is given, and SQLite then walks the table in the order of its
\* INTEGER PRIMARY KEY.
FirstRow(matching) ==
  IF matching = {} THEN NoUser
  ELSE CHOOSE u \in matching : \A v \in matching : u.id <= v.id

\* where: { OR: [{ name: String(name) }, { login: String(login) },
\*               { email: String(email) }] } of getByQuery.
QueryWhere(u, query) ==
  \/ u.name  = JSString(query.name)
  \/ u.login = JSString(query.login)
  \/ u.email = JSString(query.email)

(***************************************************************************)
(* Responses.  The texts are those of the handlers, without accents.       *)
(***************************************************************************)
MsgNoUsers         == "Nenhum usuario cadastrado."
MsgIdNotNumber     == "O parametro da requisicao (id) deve ser um numero."
MsgNoUserFound     == "Nenhum usuario encontrado."
MsgNoFilter        == "Nenhum parametro valido foi informado. Favor, informar name, login ou email."
MsgUserNotFound    == "Usuario nao encontrado."
MsgMissingKeys     == "Favor, informar name, login, email e password."
MsgDuplicate       == "Usuario com o mesmo login e/ou email ja cadastrado."
\* error.message of the error Prisma throws for an id that is no Int.
MsgPrismaArgument  == "Argument id: Provided Float, expected Int."
\* error.message of a store call that fails for a reason of the store.
MsgStoreFailure    == "Can't reach database server"

NoResponse ==
  [sends |-> 0, status |-> 0, msg |-> "", user |-> NoUser, users |-> {}, errors |-> <<>>]

\* response.status(st).send(text) on the response cur.
SendText(cur, st, text) ==
  [cur EXCEPT !.sends = @ + 1, !.status = st, !.msg = text]
\* response.status(st).send(user) and response.send({ user })
SendUser(cur, st, u) ==
  [cur EXCEPT !.sends = @ + 1, !.status = st, !.user = u]
\* response.send({ users })
SendUsers(cur, st, T) ==
  [cur EXCEPT !.sends = @ + 1, !.status = st, !.users = T]
\* response.status(st).send(errorMessage) of schemaParser
SendErrors(cur, st, e) ==
  [cur EXCEPT !.sends = @ + 1, !.status = st, !.errors = e]

(***************************************************************************)
(* The code of the handlers between two awaits.                            *)
(***************************************************************************)
\* The catch blocks of getAll, getById and getByQuery: whatever was thrown
\* in the try, the handler's own Error or a rejected store call, is answered
\* with 404 and its message.
GetAllCatch(cur, message) == SendText(cur, 404, message)
GetByIdCatch(cur, message) == SendText(cur, 404, message)
GetByQueryCatch(cur, message) == SendText(cur, 404, message)

\* The catch block of validatePost: 400 and the message.
ValidatePostCatch(cur, message) ==
  [next |-> "done", res |-> SendText(cur, 400, message)]

\* getAll after findMany resolved with the rows T.
GetAllRespond(cur, T) ==
  IF T = {} THEN GetAllCatch(cur, MsgNoUsers) ELSE SendUsers(cur, 200, T)

\* getById before its await: isNaN(Number(id)) throws into the catch.
GetByIdIsNaN(id) == ToNumber(id).kind = "nan"

\* getById after findUnique resolved with the rows found (none or one).
GetByIdRespond(cur, found) ==
  IF found = {} THEN GetByIdCatch(cur, MsgNoUserFound)
  ELSE SendUser(cur, 200, CHOOSE u \in found : TRUE)

\* getByQuery: !name && !login && !email
NoFilter(query) ==
  ~Truthy(query.name) /\ ~Truthy(query.login) /\ ~Truthy(query.email)

\* The structural check with && in place of ||: only a body with none of
\* the four keys is rejected.
ShapeOk_AllMissing(body) ==
  Truthy(body.name) \/ Truthy(body.login) \/ Truthy(body.email) \/ Truthy(body.password)

\* The structural check of validatePost: !name || !login || !email || !password
\* rejects the body.
ShapeOk(body) ==
  Truthy(body.name) /\ Truthy(body.login) /\ Truthy(body.email) /\ Truthy(body.password)

\* schemaParser: the response it sends and the flag it returns.
SchemaParser(cur, body) ==
  LET issues == SchemaIssues(body)
  IN  IF issues = <<>> THEN [isPostValid |-> TRUE, res |-> cur]
      ELSE [isPostValid |-> FALSE, res |-> SendErrors(cur, 400, issues)]

\* validatePost without "if (!isPostValid) return" after schemaParser.
ValidatePostSync_NoReturn(cur, body) ==
  IF ~ShapeOk(body)
    THEN [ev |-> <<"shape_fail">>, next |-> "done",
          res |-> SendText(cur, 400, MsgMissingKeys)]
  ELSE LET parsed == SchemaParser(cur, body)
       IN  [ev |-> <<"shape_ok", IF parsed.isPostValid THEN "schema_ok" ELSE "schema_fail">>,
            next |-> "findFirstExists", res |-> parsed.res]

\* validatePost up to its await: the events in order, where the handler
\* goes next and the response so far.
ValidatePostSync(cur, body) ==
  IF ~ShapeOk(body)
    THEN [ev |-> <<"shape_fail">>, next |-> "done",
          res |-> SendText(cur, 400, MsgMissingKeys)]
  ELSE LET parsed == SchemaParser(cur, body)
       IN  IF ~parsed.isPostValid
             THEN [ev |-> <<"shape_ok", "schema_fail">>, next |-> "done", res |-> parsed.res]
           ELSE [ev |-> <<"shape_ok", "schema_ok">>, next |-> "findFirstExists",
                 res |-> parsed.res]

\* post: const userData = request.body
UserData(body) == body

\* post answering 201 with a record that lacks the identifier of the row.
PostAfterCreate_NoId(cur, out) ==
  IF out.ok THEN [next |-> "done", res |-> SendUser(cur, 201, [out.user EXCEPT !.id = 0])]
  ELSE [next |-> "crashed", res |-> cur]

\* post after create settled with out (of StoreCreate): the 201 response,
\* or, create having thrown outside any try, the end of the handler with
\* nothing sent.
PostAfterCreate(cur, out) ==
  IF out.ok THEN [next |-> "done", res |-> SendUser(cur, 201, out.user)]
  ELSE [next |-> "crashed", res |-> cur]

\* validatePost after findFirst resolved with the rows that match.
ValidatePostRespond(cur, matching) ==
  IF matching # {} THEN ValidatePostCatch(cur, MsgDuplicate)
  ELSE [next |-> "create", res |-> cur]

\* getByQuery after findFirst resolved with the row u (NoUser for null).
GetByQueryRespond(cur, u) ==
  IF u = NoUser THEN GetByQueryCatch(cur, MsgUserNotFound) ELSE SendUser(cur, 200, u)

(***************************************************************************)
(* The requests of the model.                                              *)
(***************************************************************************)
sAnn       == <<"A","n","n">>
sPadName   == <<" ","a","b"," ">>
sAlice     == <<"a","l","i","c","e">>
sBob1      == <<"b","o","b","1">>
sNobody    == <<"n","o","b","o","d","y">>
sAl        == <<"a","l">>
sLongLogin == [i \in 1..(LoginMax + 1) |-> "a"]
sPadAlice  == <<" ","a","l","i","c","e">>
sMailA     == <<"a","@","x",".","c","o">>
sMailB     == <<"b","@","x",".","c","o">>
sNoMail    == <<"a","@","x">>
sPass      == <<"A","b","c","d","1","!">>
sWeak      == <<"a","b","c","d","e","f">>

Keys == {"name", "login", "email", "password"}
Body(n, l, e, p, i) == [name |-> n, login |-> l, email |-> e, password |-> p, id |-> i]
NoBody == Body(Undef, Undef, Undef, Undef, Undef)
BaseBody == Body(Str(sAnn), Str(sAlice), Str(sMailA), Str(sPass), Undef)

ValidBodies ==
  {Body(Str(n), Str(l), Str(e), Str(sPass), i) :
     n \in {sUndefined, sAnn}, l \in {sAlice, sBob1}, e \in {sMailA, sMailB},
     i \in {Undef, Num(2)}}
  \cup {[BaseBody EXCEPT !.login = Str(sPadAlice)]}

MalformedBodies ==
  {[BaseBody EXCEPT ![k] = Undef] : k \in Keys}
  \cup {NoBody, [BaseBody EXCEPT !.login = Str(<<>>)], [BaseBody EXCEPT !.name = Num(0)],
        [NoBody EXCEPT !.id = Num(2)]}

InvalidBodies ==
  { [BaseBody EXCEPT !.name = Str(sPadName)],
    [BaseBody EXCEPT !.login = Str(sAl)],
    [BaseBody EXCEPT !.login = Str(sLongLogin)],
    [BaseBody EXCEPT !.login = Num(7)],
    [BaseBody EXCEPT !.email = Str(sNoMail)],
    [BaseBody EXCEPT !.password = Str(sWeak)],
    [BaseBody EXCEPT !.name = Str(sPadName), !.password = Str(sWeak)],
    Body(Str(sPadName), Str(sAl), Str(sNoMail), Str(sWeak), Undef) }

Bodies == ValidBodies \cup MalformedBodies \cup InvalidBodies

\* The :id path parameters.
Ids == { <<"1">>, <<"2">>, <<"7">>, <<"a">>, <<"1","a">>, <<"1",".","5">>,
         <<"2",".","0">>, <<" ","2">> }

Query(n, l, e) == [name |-> n, login |-> l, email |-> e]
NoQuery == Query(Undef, Undef, Undef)
Queries ==
  { NoQuery,
    Query(Str(<<>>), Undef, Undef),
    Query(Undef, Str(sAlice), Undef),
    Query(Undef, Str(sNobody), Undef),
    Query(Undef, Undef, Str(sMailA)),
    Query(Str(sAnn), Undef, Undef),
    Query(Str(sUndefined), Undef, Undef),
    Query(Str(sAnn), Str(sBob1), Undef),
    Query(Undef, Str(sAlice), Str(sMailB)) }

(***************************************************************************)
(* State.                                                                  *)
(***************************************************************************)
Procs == 1..MaxRequests

VARIABLES
  users,   \* the rows of table User
  seq,     \* the AUTOINCREMENT sequence of table User
  pc,      \* where each request's handler stands
  req,     \* each request: its route, path parameter, query and body
  res,     \* each request's response
  log,     \* the checks and store calls each handler has made, in order
  seen,    \* the rows of User at the time of the handler's store read
  commits, \* the number of inserts committed since the server started
  readAt   \* the value of commits at the time of the handler's store read

vars == <<users, seq, pc, req, res, log, seen, commits, readAt>>

NoRequest == [op |-> "none", id |-> <<>>, query |-> NoQuery, body |-> NoBody]

\* The table when the server starts: empty, or holding a row of an earlier
\* run.
FirstUser ==
  [id |-> 1, login |-> sAlice, email |-> sMailA, password |-> sPass, name |-> sAnn]
InitialTables == { [users |-> {}, seq |-> 0], [users |-> {FirstUser}, seq |-> 1] }

Init ==
  /\ \E t \in InitialTables : users = t.users /\ seq = t.seq
  /\ pc = [r \in Procs |-> "idle"]
  /\ req = [r \in Procs |-> NoRequest]
  /\ res = [r \in Procs |-> NoResponse]
  /\ log = [r \in Procs |-> <<>>]
  /\ seen = [r \in Procs |-> {}]
  /\ commits = 0
  /\ readAt = [r \in Procs |-> 0]

\* Requests are numbered in the order they arrive.
Arrives(r) == pc[r] = "idle" /\ \A q \in Procs : q < r => pc[q] # "idle"

(***************************************************************************)
(* GET /users                                                              *)
(***************************************************************************)
GetAllStart(r) ==
  /\ Arrives(r)
  /\ req' = [req EXCEPT ![r] = [NoRequest EXCEPT !.op = "getAll"]]
  /\ pc' = [pc EXCEPT ![r] = "findMany"]
  /\ UNCHANGED <<users, seq, res, log, seen, commits, readAt>>

GetAllFindMany(r) ==
  /\ pc[r] = "findMany"
  /\ res' = [res EXCEPT ![r] = GetAllRespond(res[r], FindMany(users, TakeLimit))]
  /\ pc' = [pc EXCEPT ![r] = "done"]
  /\ log' = [log EXCEPT ![r] = Append(@, "findMany")]
  /\ seen' = [seen EXCEPT ![r] = users]
  /\ readAt' = [readAt EXCEPT ![r] = commits]
  /\ UNCHANGED <<users, seq, req, commits>>

(***************************************************************************)
(* GET /user/:id                                                           *)
(***************************************************************************)
GetByIdStart(r) ==
  /\ Arrives(r)
  /\ \E id \in Ids :
       /\ req' = [req EXCEPT ![r] = [NoRequest EXCEPT !.op = "getById", !.id = id]]
       /\ IF GetByIdIsNaN(id)
            THEN /\ res' = [res EXCEPT ![r] = GetByIdCatch(res[r], MsgIdNotNumber)]
                 /\ pc' = [pc EXCEPT ![r] = "done"]
            ELSE /\ res' = res
                 /\ pc' = [pc EXCEPT ![r] = "findUnique"]
  /\ UNCHANGED <<users, seq, log, seen, commits, readAt>>

\* A lookup that takes the row it returns out of the table (delete in the
\* place of findUnique).
GetByIdFindUnique_Deletes(r) ==
  /\ pc[r] = "findUnique"
  /\ LET n == ToNumber(req[r].id)
         found == IF n.kind = "int" THEN FindUnique(users, n.val) ELSE {}
     IN  /\ res' = [res EXCEPT ![r] =
                      IF n.kind = "int" THEN GetByIdRespond(res[r], found)
                      ELSE GetByIdCatch(res[r], MsgPrismaArgument)]
         /\ users' = users \ found
  /\ pc' = [pc EXCEPT ![r] = "done"]
  /\ log' = [log EXCEPT ![r] = Append(@, "findUnique")]
  /\ seen' = [seen EXCEPT ![r] = users]
  /\ readAt' = [readAt EXCEPT ![r] = commits]
  /\ UNCHANGED <<seq, req, commits>>

GetByIdFindUnique(r) ==
  /\ pc[r] = "findUnique"
  /\ LET n == ToNumber(req[r].id)
     IN  res' = [res EXCEPT ![r] =
                   IF n.kind = "int" THEN GetByIdRespond(res[r], FindUnique(users, n.val))
                   ELSE GetByIdCatch(res[r], MsgPrismaArgument)]
  /\ pc' = [pc EXCEPT ![r] = "done"]
  /\ log' = [log EXCEPT ![r] = Append(@, "findUnique")]
  /\ seen' = [seen EXCEPT ![r] = users]
  /\ readAt' = [readAt EXCEPT ![r] = commits]
  /\ UNCHANGED <<users, seq, req, commits>>

(***************************************************************************)
(* GET /user?name=&login=&email=                                           *)
(***************************************************************************)
GetByQueryStart(r) ==
  /\ Arrives(r)
  /\ \E q \in Queries :
       /\ req' = [req EXCEPT ![r] = [NoRequest EXCEPT !.op = "getByQuery", !.query = q]]
       /\ IF NoFilter(q)
            THEN /\ res' = [res EXCEPT ![r] = SendText(res[r], 400, MsgNoFilter)]
                 /\ pc' = [pc EXCEPT ![r] = "done"]
            ELSE /\ res' = res
                 /\ pc' = [pc EXCEPT ![r] = "findFirstQuery"]
  /\ UNCHANGED <<users, seq, log, seen, commits, readAt>>

GetByQueryFindFirst(r) ==
  /\ pc[r] = "findFirstQuery"
  /\ LET matching == {u \in users : QueryWhere(u, req[r].query)}
     IN  res' = [res EXCEPT ![r] = GetByQueryRespond(res[r], FirstRow(matching))]
  /\ pc' = [pc EXCEPT ![r] = "done"]
  /\ log' = [log EXCEPT ![r] = Append(@, "findFirst")]
  /\ seen' = [seen EXCEPT ![r] = users]
  /\ readAt' = [readAt EXCEPT ![r] = commits]
  /\ UNCHANGED <<users, seq, req, commits>>

(***************************************************************************)
(* POST /user                                                              *)
(***************************************************************************)
PostStart(r) ==
  /\ Arrives(r)
  /\ \E body \in Bodies :
       LET v == ValidatePostSync(res[r], body)
       IN  /\ req' = [req EXCEPT ![r] = [NoRequest EXCEPT !.op = "post", !.body = body]]
           /\ res' = [res EXCEPT ![r] = v.res]
           /\ pc' = [pc EXCEPT ![r] = v.next]
           /\ log' = [log EXCEPT ![r] = v.ev]
  /\ UNCHANGED <<users, seq, seen, commits, readAt>>

PostFindFirst(r) ==
  /\ pc[r] = "findFirstExists"
  /\ LET body == req[r].body
         matching == {u \in users : UserExistsWhere(u, body.login.s, body.email.s)}
         v == ValidatePostRespond(res[r], matching)
     IN  /\ res' = [res EXCEPT ![r] = v.res]
         /\ pc' = [pc EXCEPT ![r] = v.next]
  /\ log' = [log EXCEPT ![r] = Append(@, "findFirst")]
  /\ seen' = [seen EXCEPT ![r] = users]
  /\ readAt' = [readAt EXCEPT ![r] = commits]
  /\ UNCHANGED <<users, seq, req, commits>>

PostCreate(r) ==
  /\ pc[r] = "create"
  /\ LET out == StoreCreate(users, seq, UserData(req[r].body))
         v   == PostAfterCreate(res[r], out)
     IN  /\ users' = out.users
         /\ seq' = out.seq
         /\ res' = [res EXCEPT ![r] = v.res]
         /\ pc' = [pc EXCEPT ![r] = v.next]
         /\ log' = [log EXCEPT ![r] = @ \o <<"create", IF out.ok THEN "created" ELSE out.error>>]
         /\ commits' = IF out.ok THEN commits + 1 ELSE commits
  /\ UNCHANGED <<req, seen, readAt>>

Next ==
  \E r \in Procs :
    \/ GetAllStart(r)
    \/ GetAllFindMany(r)
    \/ GetByIdStart(r)
    \/ GetByIdFindUnique(r)
    \/ GetByQueryStart(r)
    \/ GetByQueryFindFirst(r)
    \/ PostStart(r)
    \/ PostFindFirst(r)
    \/ PostCreate(r)

Spec == Init /\ [][Next]_vars

(***************************************************************************)
(* List and Create on a table that is empty or already holds as many rows  *)
(* as one List returns.                                                    *)
(***************************************************************************)
DigitChar(d) == CHOOSE c \in Digit : DigitValue(c) = d
TwoDigits(i) == <<DigitChar(i \div 10), DigitChar(i % 10)>>
\* The i-th row of an earlier run.
EarlierUser(i) ==
  [id |-> i, login |-> <<"u","s","e","r">> \o TwoDigits(i),
   email |-> <<"u">> \o TwoDigits(i) \o <<"@","x",".","c","o">>,
   password |-> sPass, name |-> sAnn]
FullTable == {EarlierUser(i) : i \in 1..TakeLimit}
ListTables == { [users |-> {}, seq |-> 0], [users |-> FullTable, seq |-> TakeLimit] }

InitList ==
  /\ \E t \in ListTables : users = t.users /\ seq = t.seq
  /\ pc = [r \in Procs |-> "idle"]
  /\ req = [r \in Procs |-> NoRequest]
  /\ res = [r \in Procs |-> NoResponse]
  /\ log = [r \in Procs |-> <<>>]
  /\ seen = [r \in Procs |-> {}]
  /\ commits = 0
  /\ readAt = [r \in Procs |-> 0]

NextList ==
  \E r \in Procs :
    \/ GetAllStart(r)
    \/ GetAllFindMany(r)
    \/ PostStart(r)
    \/ PostFindFirst(r)
    \/ PostCreate(r)

SpecList == InitList /\ [][NextList]_vars

(***************************************************************************)
(* The same handlers against a store whose calls may also fail for a       *)
(* reason of the store (connection loss).                                  *)
(***************************************************************************)
FindManyRejects(r) ==
  /\ pc[r] = "findMany"
  /\ res' = [res EXCEPT ![r] = GetAllCatch(res[r], MsgStoreFailure)]
  /\ pc' = [pc EXCEPT ![r] = "done"]
  /\ log' = [log EXCEPT ![r] = @ \o <<"findMany", "store_failure">>]
  /\ UNCHANGED <<users, seq, req, seen, commits, readAt>>

FindUniqueRejects(r) ==
  /\ pc[r] = "findUnique"
  /\ res' = [res EXCEPT ![r] = GetByIdCatch(res[r], MsgStoreFailure)]
  /\ pc' = [pc EXCEPT ![r] = "done"]
  /\ log' = [log EXCEPT ![r] = @ \o <<"findUnique", "store_failure">>]
  /\ UNCHANGED <<users, seq, req, seen, commits, readAt>>

FindFirstQueryRejects(r) ==
  /\ pc[r] = "findFirstQuery"
  /\ res' = [res EXCEPT ![r] = GetByQueryCatch(res[r], MsgStoreFailure)]
  /\ pc' = [pc EXCEPT ![r] = "done"]
  /\ log' = [log EXCEPT ![r] = @ \o <<"findFirst", "store_failure">>]
  /\ UNCHANGED <<users, seq, req, seen, commits, readAt>>

FindFirstExistsRejects(r) ==
  /\ pc[r] = "findFirstExists"
  /\ LET v == ValidatePostCatch(res[r], MsgStoreFailure)
     IN  /\ res' = [res EXCEPT ![r] = v.res]
         /\ pc' = [pc EXCEPT ![r] = v.next]
  /\ log' = [log EXCEPT ![r] = @ \o <<"findFirst", "store_failure">>]
  /\ UNCHANGED <<users, seq, req, seen, commits, readAt>>

CreateRejects(r) ==
  /\ pc[r] = "create"
  /\ LET v == PostAfterCreate(res[r], [ok |-> FALSE, error |-> "store_failure",
                                       users |-> users, seq |-> seq, user |-> NoUser])
     IN  /\ res' = [res EXCEPT ![r] = v.res]
         /\ pc' = [pc EXCEPT ![r] = v.next]
  /\ log' = [log EXCEPT ![r] = @ \o <<"create", "store_failure">>]
  /\ UNCHANGED <<users, seq, req, seen, commits, readAt>>

NextFail ==
  \/ Next
  \/ \E r \in Procs :
       \/ FindManyRejects(r)
       \/ FindUniqueRejects(r)
       \/ FindFirstQueryRejects(r)
       \/ FindFirstExistsRejects(r)
       \/ CreateRejects(r)

SpecFail == Init /\ [][NextFail]_vars

(***************************************************************************)
(* Properties.                                                             *)
(***************************************************************************)
IsPost(r) == req[r].op = "post"
Has(r, e) == \E i \in 1..Len(log[r]) : log[r][i] = e
AllKeys(body) == \A k \in Keys : body[k].t # "undef"
LoginHit(body, S) == \E u \in S : u.login = body.login.s
EmailHit(body, S) == \E u \in S : u.email = body.email.s

\* C1: a Create whose insert the unique indexes reject (it passed the
\* pre-check while a request with the same login or email was in flight)
\* ends with the 400 duplicate response of the pre-check.
C1_RaceLoserGetsConflict ==
  \A r \in Procs :
    (IsPost(r) /\ Has(r, "unique_violation"))
      => (pc[r] = "done" /\ res[r].status = 400 /\ res[r].msg = MsgDuplicate)

\* C2: in every reachable state no two distinct rows of User share a login
\* and no two share an email.
C2_LoginEmailUnique ==
  \A u, v \in users : u # v => (u.login # v.login /\ u.email # v.email)

\* Two Creates raced on the same login or email and the table holds the
\* winner's row next to another one.
C2_Witness ==
  /\ \E r \in Procs : IsPost(r) /\ Has(r, "unique_violation")
  /\ Cardinality(users) >= 2

\* C3: a Create whose body lacks one of name, login, email, password is
\* answered 400 with the missing-keys text, once, and has made no store
\* call.
C3_MissingKeyRejectedBeforeStore ==
  \A r \in Procs :
    (IsPost(r) /\ ~AllKeys(req[r].body))
      => /\ pc[r] = "done"
         /\ res[r] = [NoResponse EXCEPT !.sends = 1, !.status = 400, !.msg = MsgMissingKeys]
         /\ ~Has(r, "findFirst") /\ ~Has(r, "create")
         /\ seen[r] = {}

\* A Create with three of the four keys has been answered.
C3_Witness ==
  \E r \in Procs :
    /\ IsPost(r) /\ pc[r] = "done"
    /\ Cardinality({k \in Keys : req[r].body[k].t = "undef"}) = 1
    /\ res[r].status = 400

\* C4: within one Create the uniqueness read comes third, after the
\* structural check and the schema validation have passed, and the insert
\* fourth, after the read found no row; a body with all four keys that
\* fails the schema causes neither.
C4_StagesInOrder ==
  \A r \in Procs :
    IsPost(r) =>
      /\ \A i \in 1..Len(log[r]) :
           /\ log[r][i] = "findFirst" =>
                /\ i = 3 /\ log[r][1] = "shape_ok" /\ log[r][2] = "schema_ok"
                /\ ShapeOk(req[r].body) /\ SchemaIssues(req[r].body) = <<>>
           /\ log[r][i] = "create" =>
                /\ i = 4 /\ log[r][3] = "findFirst"
                /\ ~LoginHit(req[r].body, seen[r]) /\ ~EmailHit(req[r].body, seen[r])
      /\ (AllKeys(req[r].body) /\ SchemaIssues(req[r].body) # <<>>)
           => (~Has(r, "findFirst") /\ ~Has(r, "create"))

\* One Create went through all four stages while another, with all four
\* keys, was stopped by the schema.
C4_Witness ==
  \E r, q \in Procs :
    /\ IsPost(r) /\ log[r] = <<"shape_ok", "schema_ok", "findFirst", "create", "created">>
    /\ IsPost(q) /\ AllKeys(req[q].body) /\ log[q] = <<"shape_ok", "schema_fail">>

\* C5: a valid Create whose login is taken while its email is free, or
\* whose email is taken while its login is free, is answered 400 with the
\* duplicate text and makes no insert.
C5_XorCollisionConflict ==
  \A r \in Procs :
    ( /\ IsPost(r) /\ ShapeOk(req[r].body) /\ SchemaIssues(req[r].body) = <<>>
      /\ Has(r, "findFirst")
      /\ LoginHit(req[r].body, seen[r]) # EmailHit(req[r].body, seen[r]) )
      => /\ pc[r] = "done"
         /\ res[r] = [NoResponse EXCEPT !.sends = 1, !.status = 400, !.msg = MsgDuplicate]
         /\ ~Has(r, "create")

\* One Create was refused for its login alone and one for its email alone.
C5_Witness ==
  \E r, q \in Procs :
    /\ IsPost(r) /\ pc[r] = "done" /\ res[r].msg = MsgDuplicate
    /\ LoginHit(req[r].body, seen[r]) /\ ~EmailHit(req[r].body, seen[r])
    /\ IsPost(q) /\ pc[q] = "done" /\ res[q].msg = MsgDuplicate
    /\ EmailHit(req[q].body, seen[q]) /\ ~LoginHit(req[q].body, seen[q])

IsGetById(r) == req[r].op = "getById"
IsGetByQuery(r) == req[r].op = "getByQuery"
Filters == {"name", "login", "email"}
\* The row u equals the query in one of the filters the query supplies.
MatchesSupplied(u, query) ==
  \E f \in Filters : Truthy(query[f]) /\ u[f] = query[f].s

\* C6 as stated: an identifier that is no number is answered 400, a numeric
\* one without a row 404, a numeric one with a row 200 and that row.
C6_NotNumberIsBadRequest ==
  \A r \in Procs :
    (IsGetById(r) /\ pc[r] = "done") =>
      LET n     == ToNumber(req[r].id)
          found == {u \in seen[r] : u.id = n.val}
      IN  /\ n.kind = "nan" => res[r].status = 400
          /\ (n.kind = "int" /\ found = {}) => res[r].status = 404
          /\ (n.kind = "int" /\ found # {}) => (res[r].status = 200 /\ res[r].user \in found)

\* C6 as the code has it: an identifier that is no number is answered 404
\* with its own text and without a store call; a numeric one without a row
\* 404; a numeric one with a row 200 and the row of that id.
C6_GetByIdClasses ==
  \A r \in Procs :
    (IsGetById(r) /\ pc[r] = "done") =>
      LET n     == ToNumber(req[r].id)
          found == {u \in seen[r] : u.id = n.val}
      IN  /\ n.kind = "nan" =>
               /\ res[r] = [NoResponse EXCEPT !.sends = 1, !.status = 404, !.msg = MsgIdNotNumber]
               /\ log[r] = <<>>
          /\ n.kind = "frac" => (res[r].status = 404 /\ res[r].sends = 1)
          /\ (n.kind = "int" /\ found = {}) =>
               res[r] = [NoResponse EXCEPT !.sends = 1, !.status = 404, !.msg = MsgNoUserFound]
          /\ (n.kind = "int" /\ found # {}) =>
               /\ res[r].status = 200 /\ res[r].sends = 1
               /\ res[r].user \in found
               /\ res[r].user.id = n.val

\* One lookup by a text that is no number and one by the id of a stored
\* row have both been answered.
C6_Witness ==
  \E r, q \in Procs :
    /\ IsGetById(r) /\ pc[r] = "done" /\ ToNumber(req[r].id).kind = "nan"
    /\ res[r].status = 404
    /\ IsGetById(q) /\ pc[q] = "done" /\ res[q].status = 200
    /\ res[q].user.id = ToNumber(req[q].id).val

\* C7: the row a query returns equals the query in at least one of the
\* filters it supplies, and a query that no row matches in a supplied
\* filter is answered not-found.
C7_OnlySuppliedFiltersMatch ==
  \A r \in Procs :
    (IsGetByQuery(r) /\ pc[r] = "done" /\ ~NoFilter(req[r].query)) =>
      /\ res[r].status = 200 => MatchesSupplied(res[r].user, req[r].query)
      /\ (\A u \in seen[r] : ~MatchesSupplied(u, req[r].query)) =>
           (res[r].status = 404 /\ res[r].msg = MsgUserNotFound)

\* C8: a query without filters is answered 400 before any store call; a
\* query with a filter is answered 200 with a stored row when a row matches
\* a supplied filter and 404 when none does.
C8_QueryClasses ==
  \A r \in Procs :
    (IsGetByQuery(r) /\ pc[r] = "done") =>
      LET q == req[r].query
      IN  /\ NoFilter(q) => (res[r].status = 400 /\ log[r] = <<>>)
          /\ (~NoFilter(q) /\ \E u \in seen[r] : MatchesSupplied(u, q)) =>
               (res[r].status = 200 /\ res[r].user \in seen[r])
          /\ (~NoFilter(q) /\ ~\E u \in seen[r] : MatchesSupplied(u, q)) =>
               res[r].status = 404

\* C9: the step that inserts writes one row made of the payload's name,
\* login, email and password and of the identifier the store's sequence
\* assigns, whatever else the payload holds.
C9_InsertFourFieldsStoreId ==
  [][\A r \in Procs :
       (pc[r] = "create" /\ pc'[r] = "done") =>
         LET b == req[r].body
         IN  /\ users' = users \cup {[id |-> seq + 1, login |-> b.login.s,
                                       email |-> b.email.s, password |-> b.password.s,
                                       name |-> b.name.s]}
             /\ res'[r].user.id = seq + 1]_vars

\* C10: a request one of whose store calls failed for a reason of the
\* store is answered once, with a server error (5xx).
C10_StoreFailureIsServerError ==
  \A r \in Procs :
    Has(r, "store_failure") => (res[r].sends = 1 /\ res[r].status >= 500)

Created(r) == IsPost(r) /\ pc[r] = "done" /\ res[r].status = 201
\* The four columns of the record u are the four values of the payload.
CarriesPayload(u, body) ==
  /\ u.name = body.name.s /\ u.login = body.login.s
  /\ u.email = body.email.s /\ u.password = body.password.s

FieldOrder == <<"name", "login", "email", "password">>
\* The value v breaks the constraint the schema declares for field f.
Violates(f, v) ==
  \/ v.t # "str"
  \/ f = "name" /\ (Len(Trim(v.s)) < NameMin \/ Len(Trim(v.s)) > NameMax)
  \/ f = "login" /\ (Len(Trim(v.s)) < LoginMin \/ Len(Trim(v.s)) > LoginMax)
  \/ f = "email" /\ ~IsEmail(Trim(v.s))
  \/ f = "password" /\ ~PasswordRegex(Trim(v.s))
\* The fields of body that break their constraint, in schema order.
ViolatedFields(body) == SelectSeq(FieldOrder, LAMBDA f : Violates(f, body[f]))
FieldsOf(errors) == [i \in 1..Len(errors) |-> errors[i].field]

\* C12 as stated: a Create whose body has all four keys and breaks a field
\* constraint is answered 400 with one {field, message} entry per violated
\* field, in the order name, login, email, password.
C12_AllKeysInvalidGetsFieldList ==
  \A r \in Procs :
    (IsPost(r) /\ AllKeys(req[r].body) /\ ViolatedFields(req[r].body) # <<>>)
      => /\ res[r].status = 400
         /\ FieldsOf(res[r].errors) = ViolatedFields(req[r].body)

\* C12 as the code has it: the same, for a body whose four values are all
\* truthy (an empty text or a 0 is answered as a missing key instead).
C12_TruthyInvalidGetsFieldList ==
  \A r \in Procs :
    ( /\ IsPost(r) /\ \A k \in Keys : Truthy(req[r].body[k])
      /\ ViolatedFields(req[r].body) # <<>> )
      => /\ pc[r] = "done"
         /\ res[r].status = 400 /\ res[r].sends = 1 /\ res[r].msg = ""
         /\ FieldsOf(res[r].errors) = ViolatedFields(req[r].body)
         /\ \A i \in 1..Len(res[r].errors) : res[r].errors[i].message # ""

\* A Create that breaks all four constraints and one that breaks only the
\* first and the last have been answered.
C12_Witness ==
  \E r, q \in Procs :
    /\ IsPost(r) /\ pc[r] = "done" /\ Len(res[r].errors) = 4
    /\ IsPost(q) /\ pc[q] = "done"
    /\ FieldsOf(res[q].errors) = <<"name", "password">>

\* C13: the table changes only in the last step of a Create that is then
\* answered 201, and that step adds exactly one row and leaves every
\* existing row as it was; every other step (of List, Get-by-identifier,
\* Get-by-query and of a Create that is rejected) leaves the table as it
\* was.
C13_OnlyCreateAddsOneRow ==
  [][/\ users \subseteq users'
     /\ users' # users =>
          \E r \in Procs :
            /\ IsPost(r) /\ pc[r] = "create" /\ pc'[r] = "done"
            /\ res'[r].status = 201
            /\ res'[r].user \notin users
            /\ users' = users \cup {res'[r].user}
     /\ \A r \in Procs :
          (pc[r] = "create" /\ pc'[r] = "done")
            => Cardinality(users') = Cardinality(users) + 1
     /\ \A r \in Procs :
          (pc[r] # pc'[r] /\ (~IsPost(r) \/ res'[r].status # 201)) => users' = users]_vars

\* A Create added a row next to the first one, and a Create has been
\* rejected for a duplicate.
C13_Witness ==
  \E r, q \in Procs :
    /\ Created(r) /\ FirstUser \in users /\ Cardinality(users) = 2
    /\ IsPost(q) /\ pc[q] = "done" /\ res[q].msg = MsgDuplicate

IsGetAll(r) == req[r].op = "getAll"

\* C15: a List is answered 404 with the no-users text exactly when the
\* table it read held no row; otherwise it is answered 200 with rows of
\* that table, all n of them up to 20 and 20 of them beyond.
C15_ListEmptyPolicyAndCap ==
  \A r \in Procs :
    (IsGetAll(r) /\ pc[r] = "done") =>
      LET n == Cardinality(seen[r])
      IN  /\ res[r].sends = 1
          /\ (res[r].status = 404 /\ res[r].msg = MsgNoUsers) <=> n = 0
          /\ n = 0 => res[r].users = {}
          /\ n > 0 =>
               /\ res[r].status = 200 /\ res[r].msg = ""
               /\ res[r].users \subseteq seen[r]
               /\ Cardinality(res[r].users) = IF n < 20 THEN n ELSE 20

\* A List read a table of 21 rows and was answered with 20 of them.
C15_Witness ==
  \E r \in Procs :
    /\ IsGetAll(r) /\ pc[r] = "done"
    /\ Cardinality(seen[r]) = 21 /\ Cardinality(res[r].users) = 20

\* C16: a Create never has two responses sent, and once its handler has
\* ended, every store call of the request having returned or failed,
\* exactly one response has been sent.
C16_CreateExactlyOneResponse ==
  \A r \in Procs :
    IsPost(r) =>
      /\ res[r].sends <= 1
      /\ pc[r] \in {"done", "crashed"} => res[r].sends = 1
====
